---- MODULE Spec2Model ----
(***************************************************************************)
(* A model of mlox's Qt front end (src/mlox/qtGui.py): the text colorizer  *)
(* colorize_text, the three logging handlers installed by MloxGui.__init__ *)
(* and the handlers of MloxGui (start, reload, open_file, paste_handler,   *)
(* commit, show_debug_window) around analyze_loadorder.                    *)
(*                                                                         *)
(* Text.  A Python str is modelled as a sequence of tokens; a token is a   *)
(* TLA+ string whose characters are the characters of the str, so that the *)
(* concatenation of the tokens is the str.  The tokens are cut so that     *)
(* every regular expression of colorize_text matches whole tokens: a token *)
(* is a single white-space character, or contains no white space, or       *)
(* begins with white space (SpaceLed); "!" , "|" , "*" and the digits are  *)
(* tokens of one character.                                                *)
(*                                                                         *)
(* Regular expressions.  re.sub is modelled as Python runs it: the text is *)
(* scanned from the left, at each position the pattern is tried once (all  *)
(* the patterns used here have one way to match at a position, greedy      *)
(* choices included), a match is replaced and the scan resumes at its end. *)
(* The last two patterns (lines 53-54) carry an inline (?i) in the middle   *)
(* of the pattern; the model gives them the meaning of the interpreters    *)
(* that accept it (up to Python 3.10: the flag applies to the whole        *)
(* pattern; from Python 3.11 on re.compile rejects the pattern).           *)
(***************************************************************************)
EXTENDS Integers, Sequences, FiniteSets, TLC

VARIABLES
    pc,          \* position of the interaction thread
    Dbg,         \* self.Dbg   : io.StringIO, debug output
    Stats,       \* self.Stats : io.StringIO, status output
    New,         \* self.New   : new sorted load order
    Old,         \* self.Old   : old original load order
    Msg,         \* self.Msg   : messages output
    can_update,  \* self.can_update
    lo,          \* self.lo    : the Loadorder of the current pass
    fromfile,    \* argument of the running analyze_loadorder
    pub,         \* last values sent to the window (signals, debug_window text)
    exit_status, \* status the process exited with (read when pc = "exited")
    nops,        \* number of user operations requested so far
    ev,          \* what the last step did (history)
    text,        \* input of one colorize_text call
    out,         \* its result
    handlers     \* the handlers of the root logger

vars == <<pc, Dbg, Stats, New, Old, Msg, can_update, lo, fromfile, pub,
          exit_status, nops, ev, text, out, handlers>>

guiVars == <<pc, Dbg, Stats, New, Old, Msg, can_update, lo, fromfile, pub,
             exit_status, nops, ev>>

-----------------------------------------------------------------------------
(* Tokens *)

NL == "\n"

\* the tokens \s matches
WhiteSpace == {" ", "\t", "\n"}

\* the tokens that begin with a white-space character and go on with others
SpaceLed ==
    { " style='color: black; background-color: black;'>",
      " style='background-color: rgb(255,180,180);'>",
      " style='background-color: rgb(255,255,180);'>",
      " style='background-color: rgb(125,220,240);'>",
      " style='background-color: rgb(80,200,120);'>",
      " style='background-color: yellow;'>",
      " style='background-color: rgb(238,75,43);'>",
      " href='",
      " already in sorted order. No sorting needed!]",
      " LOAD ORDER UPDATED!",
      " an update, when no update is possible/needed.",
      " Update available: ", " -> ", " Link: ",
      " to connect to ", " skipping update check.",
      "\t\t\t\t Hello! " }

\* https?:// under re.IGNORECASE
UrlScheme == {"http://", "https://", "HTTP://"}

\* \d
Digit == {"1", "3"}

\* the tokens that end with \.es[mp] under re.IGNORECASE
EsSuffixed == {"A.esp", "B.esp", "foo.esp", "foo.ESM"}

\* the phrase of highlighter 10
SortedPhrase == <<"[Plugins", " already in sorted order. No sorting needed!]">>

-----------------------------------------------------------------------------
(* colorize_text *)

hide_replacement(g1) ==
    <<"<span", " style='color: black; background-color: black;'>">> \o g1 \o <<"</span>">>

bg_open(color) ==
    CASE color = "low"    -> <<"<span", " style='background-color: rgb(255,180,180);'>">>
      [] color = "medium" -> <<"<span", " style='background-color: rgb(255,255,180);'>">>
      [] color = "high"   -> <<"<span", " style='background-color: rgb(125,220,240);'>">>
      [] color = "green"  -> <<"<span", " style='background-color: rgb(80,200,120);'>">>
      [] color = "yellow" -> <<"<span", " style='background-color: yellow;'>">>
      [] color = "red"    -> <<"<span", " style='background-color: rgb(238,75,43);'>">>

\* bg_colors[color] with \g<0> = m
bg_colors(color, m) == bg_open(color) \o m \o <<"</span>">>

url_replacement(m) == <<"<a", " href='">> \o m \o <<"'>">> \o m \o <<"</a>">>

\* the order of the list highlighters
highlighters ==
    << "hide", "success", "conflict", "url", "low", "medium", "high",
       "warning", "error", "sorted", "moved", "moved_conflict" >>

Min(S) == CHOOSE m \in S : \A k \in S : m <= k
Max(S) == CHOOSE m \in S : \A k \in S : m >= k

\* ^ under re.MULTILINE
AtLineStart(t, i) == i = 1 \/ t[i - 1] = NL

\* where a greedy .* that starts at i stops: the next line break or the end
LineEnd(t, i) ==
    LET S == {j \in i..Len(t) : t[j] = NL}
    IN  IF S = {} THEN Len(t) + 1 ELSE Min(S)

\* where a greedy \s* that starts at i stops
SkipSpace(t, i) ==
    LET S == {j \in i..Len(t) : t[j] \notin WhiteSpace}
    IN  IF S = {} THEN Len(t) + 1 ELSE Min(S)

\* where a greedy [^\s]* that starts at i stops
SkipNonSpace(t, i) ==
    LET S == {j \in i..Len(t) : t[j] \in WhiteSpace \cup SpaceLed}
    IN  IF S = {} THEN Len(t) + 1 ELSE Min(S)

\* where a greedy \d+ that starts at i stops (i itself when there is no digit)
SkipDigits(t, i) ==
    LET S == {j \in i..Len(t) : t[j] \notin Digit}
    IN  IF S = {} THEN Len(t) + 1 ELSE Min(S)

Is(t, i, tok) == i <= Len(t) /\ t[i] = tok

HasLit(t, i, lit) ==
    /\ i + Len(lit) - 1 <= Len(t)
    /\ \A j \in 1..Len(lit) : t[i + j - 1] = lit[j]

\* where ^\s*\|?\s* stops when it starts at i
MarkPrefix(t, i) ==
    LET a == SkipSpace(t, i)
        b == IF Is(t, a, "|") THEN a + 1 ELSE a
    IN  SkipSpace(t, b)

\* where .*\.es[mp] stops when it starts at i, 0 when it does not match
EsEnd(t, i) ==
    LET S == {j \in i..(LineEnd(t, i) - 1) : t[j] \in EsSuffixed}
    IN  IF S = {} THEN 0 ELSE Max(S) + 1

(* Match(h, t, i): the position after the match of highlighter h that     *)
(* starts at position i of t, or 0 when h does not match at i.            *)
MatchHide(t, i) ==
    IF ~Is(t, i, "<hide>") THEN 0
    ELSE LET S == {j \in (i + 1)..(LineEnd(t, i + 1) - 1) : t[j] = "</hide>"}
         IN  IF S = {} THEN 0 ELSE Max(S) + 1

MatchLinePrefix(t, i, lit) ==
    IF AtLineStart(t, i) /\ HasLit(t, i, lit) THEN LineEnd(t, i + Len(lit)) ELSE 0

MatchConflict(t, i) ==
    IF AtLineStart(t, i) /\ Is(t, i, "[CONFLICT]") THEN i + 1 ELSE 0

MatchUrl(t, i) ==
    IF i <= Len(t) /\ t[i] \in UrlScheme THEN SkipNonSpace(t, i + 1) ELSE 0

MatchLow(t, i) ==
    LET p == MarkPrefix(t, i)
    IN  IF /\ AtLineStart(t, i)
           /\ Is(t, p, "!")
           /\ p + 1 <= Len(t) /\ t[p + 1] # "!"
        THEN LineEnd(t, p + 2) ELSE 0

MatchMedium(t, i) ==
    LET p == MarkPrefix(t, i)
    IN  IF AtLineStart(t, i) /\ HasLit(t, p, <<"!", "!">>)
        THEN LineEnd(t, p + 2) ELSE 0

MatchHigh(t, i) ==
    LET p == MarkPrefix(t, i)
    IN  IF AtLineStart(t, i) /\ HasLit(t, p, <<"!", "!", "!">>)
        THEN LineEnd(t, p + 3) ELSE 0

MatchSorted(t, i) ==
    IF HasLit(t, i, SortedPhrase) THEN i + Len(SortedPhrase) ELSE 0

\* MatchMoved, with the marks of the conflict notation let through
MatchMoved_marked(t, i) ==
    LET a == IF Is(t, i + 1, "!") THEN i + 2 ELSE i + 1
        d == SkipDigits(t, a)
        b == IF Is(t, d + 1, "!") THEN d + 2 ELSE d + 1
    IN  IF /\ AtLineStart(t, i)
           /\ Is(t, i, "*")
           /\ d > a
           /\ Is(t, d, "*")
           /\ b <= Len(t) /\ t[b] \in WhiteSpace
        THEN EsEnd(t, b + 1) ELSE 0

MatchMoved(t, i) ==
    LET d == SkipDigits(t, i + 1)
    IN  IF /\ AtLineStart(t, i)
           /\ Is(t, i, "*")
           /\ d > i + 1
           /\ Is(t, d, "*")
           /\ d + 1 <= Len(t) /\ t[d + 1] \in WhiteSpace
        THEN EsEnd(t, d + 2) ELSE 0

MatchMovedConflict(t, i) ==
    LET d == SkipDigits(t, i + 2)
    IN  IF /\ AtLineStart(t, i)
           /\ HasLit(t, i, <<"*", "!">>)
           /\ d > i + 2
           /\ HasLit(t, d, <<"*", "!">>)
           /\ d + 2 <= Len(t) /\ t[d + 2] \in WhiteSpace
        THEN EsEnd(t, d + 3) ELSE 0

Match(h, t, i) ==
    CASE h = "hide"           -> MatchHide(t, i)
      [] h = "success"        -> MatchLinePrefix(t, i, <<"SUCCESS", ":">>)
      [] h = "conflict"       -> MatchConflict(t, i)
      [] h = "url"            -> MatchUrl(t, i)
      [] h = "low"            -> MatchLow(t, i)
      [] h = "medium"         -> MatchMedium(t, i)
      [] h = "high"           -> MatchHigh(t, i)
      [] h = "warning"        -> MatchLinePrefix(t, i, <<"WARNING", ":">>)
      [] h = "error"          -> MatchLinePrefix(t, i, <<"ERROR", ":">>)
      [] h = "sorted"         -> MatchSorted(t, i)
      [] h = "moved"          -> MatchMoved(t, i)
      [] h = "moved_conflict" -> MatchMovedConflict(t, i)

\* the replacement string of highlighter h for the match m
Replacement(h, m) ==
    CASE h = "hide"           -> hide_replacement(SubSeq(m, 2, Len(m) - 1))
      [] h = "success"        -> bg_colors("green", m)
      [] h = "conflict"       -> bg_colors("red", m)
      [] h = "url"            -> url_replacement(m)
      [] h = "low"            -> bg_colors("low", m)
      [] h = "medium"         -> bg_colors("medium", m)
      [] h = "high"           -> bg_colors("high", m)
      [] h = "warning"        -> bg_colors("yellow", m)
      [] h = "error"          -> bg_colors("red", m)
      [] h = "sorted"         -> bg_colors("green", m)
      [] h = "moved"          -> bg_colors("yellow", m)
      [] h = "moved_conflict" -> bg_colors("red", m)

\* regex.sub(replacement_string, text), scanning from position i
RECURSIVE SubFrom(_, _, _)
SubFrom(h, t, i) ==
    IF i > Len(t) THEN <<>>
    ELSE LET e == Match(h, t, i)
         IN  IF e = 0
             THEN <<t[i]>> \o SubFrom(h, t, i + 1)
             ELSE Replacement(h, SubSeq(t, i, e - 1)) \o SubFrom(h, t, e)

sub(h, t) == SubFrom(h, t, 1)

\* replace_newlines, with the line break itself lost
RECURSIVE replace_newlines_lost(_)
replace_newlines_lost(t) ==
    IF t = <<>> THEN <<>>
    ELSE (IF Head(t) = NL THEN <<"<br>">> ELSE <<Head(t)>>)
         \o replace_newlines_lost(Tail(t))

\* text.replace('\n', '<br>\n')
RECURSIVE replace_newlines(_)
replace_newlines(t) ==
    IF t = <<>> THEN <<>>
    ELSE (IF Head(t) = NL THEN <<"<br>", NL>> ELSE <<Head(t)>>)
         \o replace_newlines(Tail(t))

\* the loop over highlighters, from the k-th on
RECURSIVE ApplyFrom(_, _)
ApplyFrom(t, k) ==
    IF k > Len(highlighters) THEN t
    ELSE ApplyFrom(sub(highlighters[k], t), k + 1)

colorize_text(t) == replace_newlines(ApplyFrom(t, 1))

-----------------------------------------------------------------------------
(* The log handlers installed by MloxGui.__init__ *)

DEBUG   == 10
INFO    == 20
WARNING == 30
ERROR   == 40

levelname(levelno) ==
    CASE levelno = DEBUG   -> "DEBUG"
      [] levelno = INFO    -> "INFO"
      [] levelno = WARNING -> "WARNING"
      [] levelno = ERROR   -> "ERROR"

\* FilterInfo.filter
FilterInfo(record) == record.levelno = INFO

\* the handlers __init__ adds to the root logger, in the order of the
\* addHandler calls
root_handlers ==
    << [stream |-> "Dbg",   formatter |-> "dbg_formatter",  level |-> DEBUG,   filtered |-> FALSE],
       [stream |-> "Stats", formatter |-> "gui_formatter",  level |-> WARNING, filtered |-> FALSE],
       [stream |-> "Stats", formatter |-> "info_formatter", level |-> INFO,    filtered |-> TRUE] >>

\* logging.Formatter(fmt).format(record)
format(formatter, record) ==
    CASE formatter = "dbg_formatter" ->
            <<levelname(record.levelno), " (", record.name, "): ">> \o record.message
      [] formatter = "gui_formatter" ->
            <<levelname(record.levelno), ":", " ">> \o record.message
      [] formatter = "info_formatter" ->
            record.message

\* handles, with the filters of the handler left out
handles_unfiltered(hdlr, record) == record.levelno >= hdlr.level

\* a handler handles a record of its level or above that its filters let through
handles(hdlr, record) ==
    /\ record.levelno >= hdlr.level
    /\ hdlr.filtered => FilterInfo(record)

\* what StreamHandler.emit writes: the formatted record and the terminator
emit(hdlr, record) ==
    IF handles(hdlr, record) THEN format(hdlr.formatter, record) \o <<NL>> ELSE <<>>

\* what the handlers from the k-th on write into the stream for the record
RECURSIVE callHandlers(_, _, _)
callHandlers(record, stream, k) ==
    IF k > Len(handlers) THEN <<>>
    ELSE (IF handlers[k].stream = stream THEN emit(handlers[k], record) ELSE <<>>)
         \o callHandlers(record, stream, k + 1)

\* the stream after the records of the sequence have been logged
RECURSIVE logged(_, _, _)
logged(buf, stream, records) ==
    IF records = <<>> THEN buf
    ELSE logged(buf \o callHandlers(Head(records), stream, 1), stream, Tail(records))

-----------------------------------------------------------------------------
(* The collaborators: version, the release endpoint, the sorter *)

\* version.VERSION
current_version == "1.0"

url == <<"https://", "github.com/rfuzzo/mlox/releases/latest">>

\* connection.url: where the release endpoint redirects to
RemoteUrls ==
    { <<"https://", "github.com/rfuzzo/mlox/releases/tag/", "1.0">>,
      <<"https://", "github.com/rfuzzo/mlox/releases/tag/", "1.1">> }

\* remote_url.split('/')[-1]: the tokens of a url end at its slashes
remote_version_of(remote_url) == remote_url[Len(remote_url)]

version_record ==
    [levelno |-> INFO, name |-> "mlox.gui",
     message |-> <<"Version:", " ", current_version, "\t\t\t\t Hello! ">>]

update_available_record(remote_url) ==
    [levelno |-> WARNING, name |-> "mlox.gui",
     message |-> <<"MLOX", " Update available: ", current_version, " -> ",
                   remote_version_of(remote_url), ".", " Link: ">> \o remote_url]

unable_record ==
    [levelno |-> WARNING, name |-> "mlox.gui",
     message |-> <<"Unable", " to connect to ">> \o url \o <<",", " skipping update check.">>]

no_update_record ==
    [levelno |-> ERROR, name |-> "mlox.gui",
     message |-> <<"Attempted", " an update, when no update is possible/needed.">>]

success_record ==
    [levelno |-> INFO, name |-> "mlox.gui",
     message |-> <<"SUCCESS", ":", " LOAD ORDER UPDATED!">>]

\* a record the sorter logs while it runs update
sorter_record ==
    [levelno |-> DEBUG, name |-> "mlox.loadOrder", message |-> <<"sorting">>]

\* the orders read_from_file / get_active_plugins find
OriginalOrders == { <<"A.esp", "B.esp">>, <<"B.esp">> }

\* the orders update computes
NewOrders(order) ==
    IF Len(order) = 2 THEN {order, <<order[2], order[1]>>} ELSE {order}

\* the text update returns
SorterMessage(is_sorted) ==
    IF is_sorted THEN SortedPhrase \o <<NL>>
    ELSE <<"*", "1", "*", " ", "B.esp", NL, "!", " ", "http://", "x", NL>>

\* lo = None, and the Loadorder object through its calls
NoneLoadorder ==
    [state |-> "None", order |-> <<>>, new_order |-> <<>>, is_sorted |-> FALSE, msg |-> <<>>]

-----------------------------------------------------------------------------
(* Bounds *)

\* user operations (start, reload, open_file, paste_handler, commit) per session
MaxOps == 4

\* tokens of an input text of colorize_text
MaxTextLen == 4

\* lines of an input text made of marked lines
MaxLines == 3

-----------------------------------------------------------------------------
(* MloxGui *)

\* what a step reports about itself
Event(op, emitted, wrote, refreshed) ==
    [op |-> op, emitted |-> emitted, wrote |-> wrote, refreshed |-> refreshed]

\* the values display() sends to the window
display(dbg, can, stats, msg, new, old) ==
    [debug_text |-> dbg,
     is_enabled |-> can,
     status     |-> colorize_text(stats),
     message    |-> colorize_text(msg),
     new        |-> colorize_text(new),
     old        |-> colorize_text(old)]

\* append_lines, with the line break left out
RECURSIVE append_lines_unbroken(_, _)
append_lines_unbroken(acc, order) ==
    IF order = <<>> THEN acc
    ELSE append_lines_unbroken(acc \o <<Head(order)>>, Tail(order))

\* for p in order: acc += p + '\n'
RECURSIVE append_lines(_, _)
append_lines(acc, order) ==
    IF order = <<>> THEN acc
    ELSE append_lines(acc \o <<Head(order), NL>>, Tail(order))

\* the state after __init__, before start
Init ==
    /\ pc = "constructed"
    /\ Dbg = <<>>
    /\ Stats = <<>>
    /\ New = <<>>
    /\ Old = <<>>
    /\ Msg = <<>>
    /\ can_update = TRUE
    /\ lo = NoneLoadorder
    /\ fromfile = "None"
    /\ pub = display(<<>>, TRUE, <<>>, <<>>, <<>>, <<>>)
    /\ exit_status = 0
    /\ nops = 0
    /\ ev = Event("__init__", <<>>, FALSE, FALSE)
    /\ text = <<>>
    /\ out = <<>>
    /\ handlers = root_handlers

\* analyze_loadorder, with the handlers installed again by every pass
analyze_loadorder_reinstalls(op, file) ==
    /\ pc' = "reset"
    /\ fromfile' = file
    /\ nops' = nops + 1
    /\ ev' = Event(op, <<>>, FALSE, FALSE)
    /\ handlers' = handlers \o root_handlers
    /\ UNCHANGED <<Dbg, Stats, New, Old, Msg, lo, pub, exit_status, text, out>>

\* the entry of analyze_loadorder(file)
analyze_loadorder(op, file) ==
    /\ pc' = "reset"
    /\ fromfile' = file
    /\ nops' = nops + 1
    /\ ev' = Event(op, <<>>, FALSE, FALSE)
    /\ UNCHANGED <<Dbg, Stats, New, Old, Msg, lo, pub, exit_status, text, out, handlers>>

\* start(): the first pass, before the event loop runs
Start ==
    /\ pc = "constructed"
    /\ analyze_loadorder("start", "None")
    /\ UNCHANGED can_update

Reload ==
    /\ pc = "idle"
    /\ nops < MaxOps
    /\ can_update' = TRUE
    /\ analyze_loadorder("reload", "None")

\* OpenFile, with commit enabled again as reload does
OpenFile_enables ==
    /\ pc = "idle"
    /\ nops < MaxOps
    /\ can_update' = TRUE
    /\ analyze_loadorder("open_file", "file_path")

OpenFile ==
    /\ pc = "idle"
    /\ nops < MaxOps
    /\ analyze_loadorder("open_file", "file_path")
    /\ UNCHANGED can_update

PasteHandler ==
    /\ pc = "idle"
    /\ nops < MaxOps
    /\ analyze_loadorder("paste_handler", "file_handle.name")
    /\ UNCHANGED can_update

\* Reset, with Dbg cleared like the other outputs
Reset_clears_Dbg ==
    /\ pc = "reset"
    /\ Dbg' = <<>>
    /\ Stats' = <<>>
    /\ New' = <<>>
    /\ Old' = <<>>
    /\ Msg' = <<>>
    /\ pc' = "log_version"
    /\ ev' = Event("reset", <<>>, FALSE, FALSE)
    /\ UNCHANGED <<can_update, lo, fromfile, pub, exit_status, nops, text, out, handlers>>

\* analyze_loadorder, lines 218-223: clear all the outputs (except Dbg)
Reset ==
    /\ pc = "reset"
    /\ Stats' = <<>>
    /\ New' = <<>>
    /\ Old' = <<>>
    /\ Msg' = <<>>
    /\ pc' = "log_version"
    /\ ev' = Event("reset", <<>>, FALSE, FALSE)
    /\ UNCHANGED <<Dbg, can_update, lo, fromfile, pub, exit_status, nops, text, out, handlers>>

\* Log, with the debug stream rewound before it is written
Log_rewinds(records) ==
    /\ Dbg' = logged(<<>>, "Dbg", records)
    /\ Stats' = logged(Stats, "Stats", records)

\* the records reach the handlers of the root logger
Log(records) ==
    /\ Dbg' = logged(Dbg, "Dbg", records)
    /\ Stats' = logged(Stats, "Stats", records)

\* display_logged, with display() called before the records are logged
display_unlogged(records, can) == display(Dbg, can, Stats, Msg, New, Old)

\* display() once the records are logged
display_logged(records, can) ==
    display(logged(Dbg, "Dbg", records), can, logged(Stats, "Stats", records),
            Msg, New, Old)

\* a step of the pass that logs the records and moves to the next position
LogAndGo(op, records, next) ==
    /\ Log(records)
    /\ pc' = next
    /\ ev' = Event(op, records, FALSE, FALSE)

\* analyze_loadorder, lines 225-226
LogVersion ==
    /\ pc = "log_version"
    /\ LogAndGo("log_version", <<version_record>>, "update_check")
    /\ UNCHANGED <<New, Old, Msg, can_update, lo, fromfile, pub, exit_status, nops, text, out, handlers>>

\* analyze_loadorder, lines 228-237: urlopen answers, raises, or does not return
UpdateCheckAnswer ==
    /\ pc = "update_check"
    /\ \E remote_url \in RemoteUrls :
          LogAndGo("update_check",
                   IF remote_version_of(remote_url) # current_version
                   THEN <<update_available_record(remote_url)>> ELSE <<>>,
                   "populate")
    /\ UNCHANGED <<New, Old, Msg, can_update, lo, fromfile, pub, exit_status, nops, text, out, handlers>>

\* UpdateCheckFault, with the exception of urlopen not caught
UpdateCheckFault_uncaught ==
    /\ pc = "update_check"
    /\ pc' = "fault"
    /\ ev' = Event("update_check_fault", <<>>, FALSE, FALSE)
    /\ UNCHANGED <<Dbg, Stats, New, Old, Msg, can_update, lo, fromfile, pub,
                   exit_status, nops, text, out, handlers>>

UpdateCheckFault ==
    /\ pc = "update_check"
    /\ LogAndGo("update_check_fault", <<unable_record>>, "populate")
    /\ UNCHANGED <<New, Old, Msg, can_update, lo, fromfile, pub, exit_status, nops, text, out, handlers>>

UpdateCheckBlocks ==
    /\ pc = "update_check"
    /\ pc' = "blocked"
    /\ ev' = Event("update_check_blocks", <<>>, FALSE, FALSE)
    /\ UNCHANGED <<Dbg, Stats, New, Old, Msg, can_update, lo, fromfile, pub,
                   exit_status, nops, text, out, handlers>>

\* Raise, with the exception swallowed: the handler returns to the event loop
Raise_swallowed(op) ==
    /\ pc' = "idle"
    /\ ev' = Event(op, <<>>, FALSE, FALSE)

\* an exception nothing catches: the next step is sys.excepthook
Raise(op) ==
    /\ pc' = "fault"
    /\ ev' = Event(op, <<>>, FALSE, FALSE)

\* analyze_loadorder, lines 239-243
Populate ==
    /\ pc = "populate"
    /\ \/ \E order \in OriginalOrders :
             /\ lo' = [NoneLoadorder EXCEPT !.state = "populated", !.order = order]
             /\ pc' = "update"
             /\ ev' = Event(IF fromfile # "None" THEN "read_from_file"
                            ELSE "get_active_plugins", <<>>, FALSE, FALSE)
       \/ /\ lo' = [NoneLoadorder EXCEPT !.state = "created"]
          /\ Raise("populate_fault")
    /\ UNCHANGED <<Dbg, Stats, New, Old, Msg, can_update, fromfile, pub,
                   exit_status, nops, text, out, handlers>>

\* analyze_loadorder, lines 245-246
Update ==
    /\ pc = "update"
    /\ \/ \E new_order \in NewOrders(lo.order), is_sorted \in BOOLEAN :
             /\ lo' = [lo EXCEPT !.state = "updated", !.new_order = new_order,
                                 !.is_sorted = is_sorted, !.msg = SorterMessage(is_sorted)]
             /\ Msg' = SorterMessage(is_sorted)
             /\ LogAndGo("update", <<sorter_record>>, "collect")
       \/ /\ Raise("update_fault")
          /\ UNCHANGED <<Dbg, Stats, Msg, lo>>
    /\ UNCHANGED <<New, Old, can_update, fromfile, pub, exit_status, nops, text, out, handlers>>

\* Collect, without the test of is_sorted
Collect_keeps_can_update ==
    /\ pc = "collect"
    /\ LET old == append_lines(Old, lo.order)
           new == append_lines(New, lo.new_order)
       IN  /\ Old' = old
           /\ New' = new
           /\ pub' = display(Dbg, can_update, Stats, Msg, new, old)
    /\ pc' = "idle"
    /\ fromfile' = "None"
    /\ ev' = Event("analyze_loadorder", <<>>, FALSE, TRUE)
    /\ UNCHANGED <<Dbg, Stats, Msg, lo, can_update, exit_status, nops, text, out, handlers>>

\* analyze_loadorder, lines 248-256
Collect ==
    /\ pc = "collect"
    /\ LET old == append_lines(Old, lo.order)
           new == append_lines(New, lo.new_order)
           can == IF lo.is_sorted THEN FALSE ELSE can_update
       IN  /\ Old' = old
           /\ New' = new
           /\ can_update' = can
           /\ pub' = display(Dbg, can, Stats, Msg, new, old)
    /\ pc' = "idle"
    /\ fromfile' = "None"
    /\ ev' = Event("analyze_loadorder", <<>>, FALSE, TRUE)
    /\ UNCHANGED <<Dbg, Stats, Msg, lo, exit_status, nops, text, out, handlers>>

\* Commit, without the test of can_update
Commit_unguarded ==
    /\ pc = "idle"
    /\ nops < MaxOps
    /\ nops' = nops + 1
    /\ Log(<<success_record>>)
    /\ pc' = "idle"
    /\ can_update' = FALSE
    /\ pub' = display_logged(<<success_record>>, FALSE)
    /\ ev' = Event("commit", <<success_record>>, TRUE, TRUE)
    /\ UNCHANGED <<New, Old, Msg, lo, fromfile, exit_status, text, out, handlers>>

\* commit(): refused, done, or write_new_order raises
Commit ==
    /\ pc = "idle"
    /\ nops < MaxOps
    /\ nops' = nops + 1
    /\ IF ~can_update
       THEN /\ Log(<<no_update_record>>)
            /\ pc' = "idle"
            /\ pub' = display_logged(<<no_update_record>>, can_update)
            /\ ev' = Event("commit_refused", <<no_update_record>>, FALSE, TRUE)
            /\ UNCHANGED can_update
       ELSE \/ /\ Log(<<success_record>>)
               /\ pc' = "idle"
               /\ can_update' = FALSE
               /\ pub' = display_logged(<<success_record>>, FALSE)
               /\ ev' = Event("commit", <<success_record>>, TRUE, TRUE)
            \/ /\ pc' = "fault"
               /\ ev' = Event("write_new_order_fault", <<>>, TRUE, FALSE)
               /\ UNCHANGED <<Dbg, Stats, can_update, pub>>
    /\ UNCHANGED <<New, Old, Msg, lo, fromfile, exit_status, text, out, handlers>>

ShowDebugWindow ==
    /\ pc = "idle"
    /\ pub' = [pub EXCEPT !.debug_text = Dbg]
    /\ ev' = Event("show_debug_window", <<>>, FALSE, FALSE)
    /\ UNCHANGED <<pc, Dbg, Stats, New, Old, Msg, can_update, lo, fromfile,
                   exit_status, nops, text, out, handlers>>

\* error_handler: show the error, sys.exit(1)
ErrorHandler ==
    /\ pc = "fault"
    /\ pc' = "exited"
    /\ exit_status' = 1
    /\ ev' = Event("error_handler", <<>>, FALSE, FALSE)
    /\ UNCHANGED <<Dbg, Stats, New, Old, Msg, can_update, lo, fromfile, pub,
                   nops, text, out, handlers>>

\* start(), line 201: the window is closed, sys.exit(my_app.exec())
Quit ==
    /\ pc = "idle"
    /\ pc' = "exited"
    /\ exit_status' = 0
    /\ ev' = Event("quit", <<>>, FALSE, FALSE)
    /\ UNCHANGED <<Dbg, Stats, New, Old, Msg, can_update, lo, fromfile, pub,
                   nops, text, out, handlers>>

Next ==
    \/ Start
    \/ Reload
    \/ OpenFile
    \/ PasteHandler
    \/ Reset
    \/ LogVersion
    \/ UpdateCheckAnswer
    \/ UpdateCheckFault
    \/ UpdateCheckBlocks
    \/ Populate
    \/ Update
    \/ Collect
    \/ Commit
    \/ ShowDebugWindow
    \/ ErrorHandler
    \/ Quit

Spec == Init /\ [][Next]_vars

-----------------------------------------------------------------------------
(* The pass under the scheduling of the interaction thread: a statement    *)
(* that can run does run; urlopen is the one call that may not return.     *)

PassStep ==
    \/ Reset
    \/ LogVersion
    \/ UpdateCheckAnswer
    \/ UpdateCheckFault
    \/ Populate
    \/ Update
    \/ ErrorHandler

\* Collect is the one step that leaves the position collect, and it can
\* always be taken there; its fairness is stated on that change of pc, which
\* spares the evaluation of display() inside ENABLED.
CollectReturns == pc = "collect" /\ pc' = "idle"

LiveSpec == Init /\ [][Next]_vars /\ WF_vars(PassStep) /\ WF_pc(CollectReturns)

-----------------------------------------------------------------------------
(* colorize_text on its own: one call on a text drawn from bounded sets *)

ColorAlphabet ==
    {"!", "x", " ", NL, "|", "<hide>", "</hide>", "http://", "*", "1", "foo.esp"}

BoundedTexts == UNION {[1..k -> ColorAlphabet] : k \in 0..MaxTextLen}

\* lines of mlox_base.txt messages: one, two, three marks, with and without prefix
MarkLines ==
    { <<"!", "x">>, <<"!", "!", "x">>, <<"!", "!", "!", "x">>,
      <<"|", " ", "!", "x">>, <<" ", "!", "!", "x">>, <<"|", "!", "!", "!", "x">> }

RECURSIVE JoinLines(_)
JoinLines(ls) ==
    IF Len(ls) = 0 THEN <<>>
    ELSE IF Len(ls) = 1 THEN ls[1]
    ELSE ls[1] \o <<NL>> \o JoinLines(Tail(ls))

LineTexts == {JoinLines(ls) : ls \in UNION {[1..k -> MarkLines] : k \in 1..MaxLines}}

\* texts with a hidden span, longer than the bounded texts reach
HideTexts ==
    { <<"<hide>", "http://", "x", "</hide>">>,
      <<"<hide>", "x", " ", "HTTP://", "x", "</hide>", " ", "x">>,
      <<"<hide>">> \o SortedPhrase \o <<"</hide>">>,
      <<"!", "x", "<hide>", "x", "</hide>">> }

\* lines of the new order: moved, moved into a conflict, not moved
MovedLines ==
    { <<"*", "3", "*", " ", "foo.esp">>,
      <<"*", "1", "3", "*", " ", "x", " ", "foo.ESM">>,
      <<"*", "!", "3", "*", "!", " ", "foo.esp">>,
      <<"*", "!", "1", "*", "!", " ", "x", " ", "A.esp">>,
      <<"foo.esp">> }

MovedLineSeqs == UNION {[1..k -> MovedLines] : k \in 1..MaxLines}

MovedTexts == {JoinLines(ls) : ls \in MovedLineSeqs}

ColorTexts == BoundedTexts \cup LineTexts \cup HideTexts \cup MovedTexts

ColorInit ==
    /\ pc = "call"
    /\ text \in ColorTexts
    /\ out = <<>>
    /\ handlers = root_handlers
    /\ Dbg = <<>>
    /\ Stats = <<>>
    /\ New = <<>>
    /\ Old = <<>>
    /\ Msg = <<>>
    /\ can_update = TRUE
    /\ lo = NoneLoadorder
    /\ fromfile = "None"
    /\ pub = display(<<>>, TRUE, <<>>, <<>>, <<>>, <<>>)
    /\ exit_status = 0
    /\ nops = 0
    /\ ev = Event("__init__", <<>>, FALSE, FALSE)

Colorize ==
    /\ pc = "call"
    /\ out' = colorize_text(text)
    /\ pc' = "return"
    /\ UNCHANGED <<Dbg, Stats, New, Old, Msg, can_update, lo, fromfile, pub,
                   exit_status, nops, ev, text, handlers>>

ColorNext == Colorize

SpecColor == ColorInit /\ [][ColorNext]_vars

-----------------------------------------------------------------------------
(* Claims *)

PassOps == {"start", "reload", "open_file", "paste_handler"}
CommitOps == {"commit", "commit_refused", "write_new_order_fault"}

\* a pass has just completed: analyze_loadorder returned to the event loop
PassDone == pc = "idle" /\ ev.op = "analyze_loadorder"

\* the step is a call of commit()
CommitStep == ev'.op \in CommitOps /\ nops' = nops + 1

\* C1: after every completed analysis pass, whatever started it and whatever
\* came before, can_update is the negation of the sorter's is_sorted.
C1_CanCommitIsNotSorted == PassDone => (can_update = ~lo.is_sorted)

\* C2: a commit called while can_update is false does not invoke
\* write_new_order, leaves can_update, Msg, Old and New as they were, logs
\* exactly one record, of severity ERROR, and refreshes the window; and
\* write_new_order is invoked only by a commit called while can_update is true.
C2_RefusedCommit ==
    [][ /\ (CommitStep /\ ~can_update) =>
              /\ ~ev'.wrote
              /\ UNCHANGED <<can_update, Msg, Old, New, lo>>
              /\ Len(ev'.emitted) = 1
              /\ ev'.emitted[1].levelno = ERROR
              /\ ev'.refreshed
              /\ pub'.debug_text = Dbg'
              /\ pub'.status = colorize_text(Stats')
              /\ pub'.is_enabled = FALSE
              /\ pc' = "idle"
        /\ ev'.wrote => (CommitStep /\ can_update) ]_vars

C2_Witness == pc = "idle" /\ ev.op = "commit_refused" /\ ~can_update /\ ev.refreshed

\* the three buffers of the claim C3: the streams of the three handlers
BufferOf(handler, dbg, stats) ==
    CASE handler = "debug" -> dbg
      [] handler = "stats" -> stats
      [] handler = "info"  -> stats

PassesFilter(handler, record) ==
    CASE handler = "debug" -> record.levelno >= DEBUG
      [] handler = "stats" -> record.levelno >= WARNING
      [] handler = "info"  -> record.levelno = INFO

\* the step logs one record
LogsOne == Len(ev'.emitted) = 1

\* C3 as stated: a logged record is written into a buffer if and only if it
\* passes the filter of that buffer (debug: severity >= DEBUG, stats: severity
\* >= WARNING, info: severity = INFO), so that a WARNING record is not in the
\* info buffer.
C3_BufferIffFilter ==
    [][ LogsOne =>
          \A handler \in {"debug", "stats", "info"} :
              (BufferOf(handler, Dbg', Stats') # BufferOf(handler, Dbg, Stats))
                  <=> PassesFilter(handler, ev'.emitted[1]) ]_vars

TaggedLine(record) ==
    <<levelname(record.levelno), ":", " ">> \o record.message \o <<NL>>
BareLine(record) == record.message \o <<NL>>
NamedLine(record) ==
    <<levelname(record.levelno), " (", record.name, "): ">> \o record.message \o <<NL>>

\* C3, amended: the info handler writes into the stats buffer.  A logged
\* record is appended to the debug buffer with its level and logger name; to
\* the stats buffer it is appended once with its level when its severity is >=
\* WARNING, once bare when its severity is INFO, and not at all otherwise; a
\* step that logs nothing and is not the reset leaves both buffers alone.
C3_SharedStatsBuffer ==
    [][ /\ LogsOne =>
              LET record == ev'.emitted[1] IN
              /\ Dbg' = Dbg \o NamedLine(record)
              /\ Stats' = Stats \o
                    (IF record.levelno >= WARNING THEN TaggedLine(record)
                     ELSE IF record.levelno = INFO THEN BareLine(record)
                     ELSE <<>>)
        /\ (ev'.emitted = <<>> /\ ev'.op # "reset") => UNCHANGED <<Dbg, Stats>> ]_vars

C3_Witness ==
    /\ ev.emitted = <<unable_record>>
    /\ \E i \in 1..Len(Stats) : Stats[i] = "WARNING"
    /\ \E i \in 1..Len(Stats) : Stats[i] = "Version:"
    /\ ~\E i \in 1..Len(Stats) : Stats[i] = "INFO"

ThreeMarkText ==
    <<"!", "x", NL, "!", "!", "x", NL, "!", "!", "!", "x">>

\* C4: the three lines !x, !!x, !!!x are wrapped once each, in the low, the
\* medium and the high background.
C4_ThreeMarks ==
    (pc = "return" /\ text = ThreeMarkText) =>
        out = bg_colors("low", <<"!", "x">>) \o <<"<br>", NL>>
              \o bg_colors("medium", <<"!", "!", "x">>) \o <<"<br>", NL>>
              \o bg_colors("high", <<"!", "!", "!", "x">>)

HideOpen == <<"<span", " style='color: black; background-color: black;'>">>

\* the first closing tag after position i of t, 0 when there is none
NextClose(t, i) ==
    LET S == {j \in (i + 1)..Len(t) : t[j] = "</span>"}
    IN  IF S = {} THEN 0 ELSE Min(S)

\* C5: in the output, what a hidden span holds is neither linked nor given a
\* background of its own, and the closing tag of the span is not inside a link.
C5_HiddenStaysHidden ==
    pc = "return" =>
        \A i \in 1..Len(out) :
            HasLit(out, i, HideOpen) =>
                LET c == NextClose(out, i + 1) IN
                /\ c # 0
                /\ \A j \in (i + 2)..(c - 1) : out[j] \notin {"<a", "<span"}
                /\ ~Is(out, c + 1, "'>")

\* C6: every pass starts with the reset, and the reset leaves Stats, Msg, Old
\* and New empty and Dbg as it was.
C6_Reset ==
    [][ /\ (ev'.op \in PassOps /\ nops' = nops + 1) => pc' = "reset"
        /\ pc = "reset" =>
              /\ Stats' = <<>>
              /\ Msg' = <<>>
              /\ Old' = <<>>
              /\ New' = <<>>
              /\ Dbg' = Dbg ]_vars

C6_Witness ==
    /\ pc = "log_version"
    /\ ev.op = "reset"
    /\ Dbg # <<>>
    /\ Stats = <<>>
    /\ nops >= 2

\* the order as Old and New hold it: each entry followed by one line break
LinesOf(order) ==
    [i \in 1..(2 * Len(order)) |-> IF i % 2 = 1 THEN order[(i + 1) \div 2] ELSE NL]

\* the pass that has just completed had its update check fail
CheckFaulted == \E i \in 1..Len(Stats) : Stats[i] = "Unable"

\* C7: a fault of the update check is caught: the step logs one WARNING
\* record, changes nothing else and goes on to the sorter; the pass then ends
\* with the Msg, Old and New of the sorter and with can_update false when the
\* sorter says is_sorted, as a pass whose check succeeded does.
C7_CheckFaultIsNotFatal ==
    /\ [][ ev'.op = "update_check_fault" =>
              /\ pc' = "populate"
              /\ Len(ev'.emitted) = 1
              /\ ev'.emitted[1].levelno = WARNING
              /\ Stats' = Stats \o TaggedLine(ev'.emitted[1])
              /\ UNCHANGED <<New, Old, Msg, can_update, lo, fromfile, pub, exit_status>> ]_vars
    /\ [](PassDone /\ CheckFaulted =>
              /\ Msg = lo.msg
              /\ Old = LinesOf(lo.order)
              /\ New = LinesOf(lo.new_order)
              /\ lo.is_sorted => ~can_update
              /\ pub.status = colorize_text(Stats))

C7_Witness == PassDone /\ CheckFaulted /\ New # <<>> /\ can_update

\* C8: every pass that starts ends: it completes or it ends in a fault of the
\* sorter, whatever the release endpoint does.
C8_PassEnds == (pc = "reset") ~> (pc \in {"idle", "exited"})

\* the sorter raised while the current order was read or while update ran
SorterFaulted == lo.state \in {"created", "populated"} /\ pc \in {"fault", "exited"}

\* C9: a fault of the sorter in read_from_file, get_active_plugins or update
\* goes uncaught to the top-level handler: nothing is collected, the window is
\* not refreshed, the process exits with status 1 and nothing runs after it.
C9_SorterFaultIsFatal ==
    /\ [](SorterFaulted => (Old = <<>> /\ New = <<>> /\ ~ev.refreshed))
    /\ [](SorterFaulted /\ pc = "exited" => exit_status = 1)
    /\ [][ /\ ev'.op \in {"populate_fault", "update_fault"} =>
                (pc' = "fault" /\ UNCHANGED <<pub, Old, New, Msg, can_update>>)
           /\ pc = "fault" => (pc' = "exited" /\ exit_status' = 1 /\ UNCHANGED pub)
           /\ pc # "exited" ]_vars

C9_Witness == SorterFaulted /\ pc = "exited" /\ exit_status = 1 /\ nops >= 2

\* C10: after a completed pass Old is the original order of the sorter and New
\* its new order, each entry followed by one line break, and nothing else; on
\* the first pass, the orders [A.esp, B.esp] and [B.esp, A.esp] with is_sorted
\* false give "A.esp\nB.esp\n", "B.esp\nA.esp\n" and can_update true.
C10_OrdersAsLines ==
    PassDone =>
        /\ Old = LinesOf(lo.order)
        /\ New = LinesOf(lo.new_order)
        /\ ( /\ nops = 1
             /\ lo.order = <<"A.esp", "B.esp">>
             /\ lo.new_order = <<"B.esp", "A.esp">>
             /\ ~lo.is_sorted ) =>
                /\ Old = <<"A.esp", NL, "B.esp", NL>>
                /\ New = <<"B.esp", NL, "A.esp", NL>>
                /\ can_update

C10_Witness ==
    /\ PassDone
    /\ nops >= 2
    /\ Old = <<"A.esp", NL, "B.esp", NL>>
    /\ New = <<"B.esp", NL, "A.esp", NL>>

\* what colorize_text is to make of a line of the new order
MovedLineMarkup(line) ==
    IF Len(line) >= 2 /\ line[1] = "*" /\ line[2] \in Digit
    THEN <<"<span", " style='background-color: yellow;'>">> \o line \o <<"</span>">>
    ELSE IF Len(line) >= 2 /\ line[1] = "*" /\ line[2] = "!"
    THEN <<"<span", " style='background-color: rgb(238,75,43);'>">> \o line \o <<"</span>">>
    ELSE line

RECURSIVE MovedMarkup(_)
MovedMarkup(ls) ==
    IF Len(ls) = 1 THEN MovedLineMarkup(ls[1])
    ELSE MovedLineMarkup(ls[1]) \o <<"<br>", NL>> \o MovedMarkup(Tail(ls))

\* C11: in a text of such lines, a line *<number>* <entry>.esp or .esm is
\* wrapped once, in the caution background; a line *!<number>*! <entry>.esp
\* is wrapped once, in the alert background; a plain <entry>.esp line is left
\* as it is.
C11_MovedLines ==
    (pc = "return" /\ text \in MovedTexts) =>
        \A ls \in MovedLineSeqs : text = JoinLines(ls) => out = MovedMarkup(ls)

C11_Witness ==
    /\ pc = "return"
    /\ text = JoinLines(<< <<"*", "3", "*", " ", "foo.esp">>,
                           <<"*", "!", "3", "*", "!", " ", "foo.esp">>,
                           <<"foo.esp">> >>)
    /\ Len(out) = 23
    /\ out[2] = " style='background-color: yellow;'>"
    /\ out[12] = " style='background-color: rgb(238,75,43);'>"
    /\ out[23] = "foo.esp"

\* no highlighter matches anywhere in the text
NoRuleMatches(t) ==
    \A k \in 1..Len(highlighters), i \in 1..Len(t) : Match(highlighters[k], t, i) = 0

NotBreak(tok) == tok # "<br>"

\* C12: the empty text gives the empty text, and a text in which no pattern
\* matches gives itself with "<br>" put before each line break and nothing
\* else changed.
C12_PlainText ==
    (pc = "return" /\ NoRuleMatches(text)) =>
        /\ SelectSeq(out, NotBreak) = text
        /\ \A i \in 1..Len(out) :
              /\ out[i] = NL => (i > 1 /\ out[i - 1] = "<br>")
              /\ out[i] = "<br>" => (i < Len(out) /\ out[i + 1] = NL)
        /\ text = <<>> => out = <<>>

C12_Witness ==
    /\ pc = "return"
    /\ NoRuleMatches(text)
    /\ text = <<"x", NL, "foo.esp", NL>>
    /\ out = <<"x", "<br>", NL, "foo.esp", "<br>", NL>>

\* the number of times the token occurs in the text
CountOf(t, tok) == Cardinality({i \in 1..Len(t) : t[i] = tok})

\* C13: the handlers of the root logger never grow in number, and a step
\* that logs records adds exactly one line per record to Dbg and at most one
\* line per record to Stats, in every pass and every commit of the session.
C13_NoDuplicates ==
    [][ /\ Len(handlers') <= Len(handlers)
        /\ ev'.op # "reset" =>
              /\ CountOf(Dbg', NL) = CountOf(Dbg, NL) + Len(ev'.emitted)
              /\ CountOf(Stats', NL) <= CountOf(Stats, NL) + Len(ev'.emitted)
              /\ CountOf(Stats', NL) >= CountOf(Stats, NL) ]_vars

C13_Witness ==
    /\ PassDone
    /\ nops >= 2
    /\ CountOf(Dbg, "Version:") = 2
    /\ CountOf(Stats, "Version:") = 1
    /\ Len(handlers) = 3

IsPrefix(a, b) == Len(a) <= Len(b) /\ SubSeq(b, 1, Len(a)) = a

\* C14: in every step of every operation Dbg before the step is a prefix of
\* Dbg after it.
C14_DbgAppendOnly == [][IsPrefix(Dbg, Dbg')]_vars

C14_Witness ==
    /\ pc = "idle"
    /\ ev.op = "show_debug_window"
    /\ CountOf(Dbg, "Version:") = 2
    /\ CountOf(Dbg, "ERROR") = 1

\* C15: when the thread is idle after a completed pass or after a commit,
\* done or refused, the window shows colorize_text of Stats, Msg, Old and
\* New, the raw Dbg in the debug view, and the commit button as can_update.
C15_WindowShowsState ==
    (pc = "idle" /\ ev.op \in {"analyze_loadorder", "commit", "commit_refused"}) =>
        /\ pub.status = colorize_text(Stats)
        /\ pub.message = colorize_text(Msg)
        /\ pub.old = colorize_text(Old)
        /\ pub.new = colorize_text(New)
        /\ pub.debug_text = Dbg
        /\ pub.is_enabled = can_update

C15_Witness ==
    /\ pc = "idle"
    /\ ev.op = "commit"
    /\ CountOf(Stats, "SUCCESS") = 1
    /\ CountOf(pub.status, " style='background-color: rgb(80,200,120);'>") = 1
    /\ CountOf(pub.debug_text, "SUCCESS") = 1
    /\ ~pub.is_enabled

\* C16: write_new_order is never invoked while the Loadorder of the last
\* completed pass says is_sorted.
C16_NoWriteWhenSorted == [][ev'.wrote => (pc = "idle" /\ ~lo.is_sorted)]_vars

C16_Witness == ev.op = "commit_refused" /\ lo.is_sorted /\ nops = 3

\* C17: a commit that is done leaves can_update false; write_new_order is
\* invoked only while can_update is true; and can_update goes from false to
\* true in a reload only, so that passes from a file or from the clipboard do
\* not enable commit again and two writes have a reload between them.
C17_ReloadBetweenWrites ==
    [][ /\ ev'.op = "commit" => (ev'.wrote /\ ~can_update')
        /\ ev'.wrote => can_update
        /\ (ev'.wrote /\ can_update') => pc' = "fault"
        /\ (~can_update /\ can_update') => ev'.op = "reload" ]_vars

\* the second write of a session: start, commit, reload, commit
C17_Witness ==
    /\ pc = "idle"
    /\ ev.op = "commit"
    /\ ev.wrote
    /\ ~can_update
    /\ CountOf(Dbg, "SUCCESS") = 2
    /\ CountOf(Dbg, "Version:") = 2

====
